---- MODULE Spec2Model ----
(***************************************************************************)
(* Order module of the transfer management system (lib/db/orders.ts):      *)
(* order-ID allocation on a per-month Firestore counter, createOrder,      *)
(* updateOrder / updateOrderStatus, deleteOrder, run by concurrent         *)
(* clients against one Firestore database.                                 *)
(*                                                                         *)
(* Time is counted in hours since 2025-01-01T00:00 UTC.  A JavaScript Date *)
(* is its UTC instant; the local getters (getFullYear, getMonth) read it   *)
(* in the zone of the machine that runs the code (serverOffset).           *)
(* Strings that the code builds (the order ID, the month key) are          *)
(* sequences of one-character strings.                                     *)
(***************************************************************************)
EXTENDS Integers, Sequences, FiniteSets, TLC

(* ------------------------------ bounds -------------------------------- *)

\* number of concurrent clients of the order module
NumClients == 2

\* total number of calls the clients make in one behaviour
MaxCalls == 3

\* attempts of one Firestore transaction before runTransaction rejects
\* (the SDK default is 5; the properties below do not depend on the value)
MaxAttempts == 2

Clients == 1..NumClients

\* the instants at which something happens: 2025-06-30T20:00Z and
\* 2025-06-30T22:00Z (already July in Amman)
Instants == {4340, 4342}

\* further instants: 2025-06-30T21:00Z (midnight in Amman),
\* 2025-07-01T05:00Z, 2025-12-31T22:00Z (already 2026 in Amman),
\* 2026-01-01T04:00Z
DateInstants == Instants \cup {4341, 4349, 8758, 8764}

\* UTC offsets, in hours, of the machines the code may run on
ServerOffsets == {-5, 0, 3}

(* ------------------------- program constants -------------------------- *)

\* JORDAN_TIMEZONE = 'Asia/Amman': UTC+3 all year since October 2022
JordanOffset == 3

OrderStatus ==
  {"submitted", "pending_review", "approved", "rejected", "processing",
   "completed", "cancelled"}

\* the status values the callers of createOrder pass in orderData
CreateStatuses == {"submitted", "completed"}

\* the status values the callers of updateOrderStatus pass
UpdateStatuses == {"completed"}

\* the notes the callers pass: none, the empty string, a text
Undefined == "undefined"
Notes == {Undefined, "", "note"}

\* the orderData the callers of createOrder pass
OrderDataInputs ==
  [exchangeId : {"ex1"}, type : {"incoming"}, status : CreateStatuses,
   submittedAmount : {1000}, commission : {20}, screenshots : {<<"url1">>}]

\* the orderData of the callers that follow the README example
\* (status: 'submitted')
SubmittedOrderData == {d \in OrderDataInputs : d.status = "submitted"}

\* the updates the callers of updateOrder pass directly
UpdateInputs == {[adminNotes |-> "checked"]}

(* ------------------------------ strings ------------------------------- *)

Digit(d) ==
  CASE d = 0 -> "0" [] d = 1 -> "1" [] d = 2 -> "2" [] d = 3 -> "3"
    [] d = 4 -> "4" [] d = 5 -> "5" [] d = 6 -> "6" [] d = 7 -> "7"
    [] d = 8 -> "8" [] d = 9 -> "9"

DigitValue(c) ==
  CASE c = "0" -> 0 [] c = "1" -> 1 [] c = "2" -> 2 [] c = "3" -> 3
    [] c = "4" -> 4 [] c = "5" -> 5 [] c = "6" -> 6 [] c = "7" -> 7
    [] c = "8" -> 8 [] c = "9" -> 9

\* Number.prototype.toString() of a non-negative integer
RECURSIVE toString(_)
toString(n) ==
  IF n < 10 THEN <<Digit(n)>> ELSE toString(n \div 10) \o <<Digit(n % 10)>>

\* String.prototype.padStart(len, ch): pads, never truncates
RECURSIVE padStart(_, _, _)
padStart(s, len, ch) ==
  IF Len(s) >= len THEN s ELSE padStart(<<ch>> \o s, len, ch)

\* String.prototype.slice(-n): the last n characters (all when shorter)
sliceLast(s, n) ==
  IF Len(s) <= n THEN s ELSE SubSeq(s, Len(s) - n + 1, Len(s))

\* the decimal number a string of digits denotes
RECURSIVE parseInt(_)
parseInt(s) ==
  IF Len(s) = 0 THEN 0
  ELSE 10 * parseInt(SubSeq(s, 1, Len(s) - 1)) + DigitValue(s[Len(s)])

(* ------------------------------ calendar ------------------------------ *)

\* days before the first of each month (0-based) of a non-leap year;
\* 2025 and 2026 are both non-leap
DaysBefore == <<0, 31, 59, 90, 120, 151, 181, 212, 243, 273, 304, 334>>

\* wall-clock year and 0-based month of an hour count
WallYear(h) == 2025 + (h \div 8760)
WallMonth(h) ==
  LET day == (h % 8760) \div 24
  IN  CHOOSE m \in 0..11 :
        /\ DaysBefore[m + 1] <= day
        /\ (m = 11 \/ day < DaysBefore[m + 2])

(* ------------------------------- dates -------------------------------- *)

VARIABLES
  clock,          \* the current instant (new Date(), Timestamp.now())
  serverOffset,   \* UTC offset of the machine's local zone
  counters,       \* collection 'counters': document key -> document
  orders,         \* collection 'orders': document id -> document
  nextId,         \* the id addDoc gives the next document
  client,         \* per client: where its current call stands
  calls,          \* number of calls made so far
  response,       \* the ApiResponse returned last
  issued,         \* history: the IDs generateOrderId returned, in commit
                  \* order, each with the counter it used and the instant of
                  \* the call
  users,          \* collection 'users': document id -> document
  platformBanks,  \* collection 'platformBanks': document id -> document
  messages,       \* collection 'messages': document id -> document
  http,           \* the HTTP request being served and its response
  chat,           \* a subscribeToChatThread subscription and its deliveries
  auth            \* the state of the AuthProvider component

\* the collections the order module has no reference to
otherCollections == <<users, platformBanks, messages>>

\* the state outside the database
appState == <<http, chat, auth>>

vars ==
  <<clock, serverOffset, counters, orders, nextId, client, calls, response,
    issued, users, platformBanks, messages, http, chat, auth>>

\* Date.prototype.getFullYear / getMonth: fields of the local wall clock
getFullYear(d) == WallYear(d + serverOffset)
getMonth(d) == WallMonth(d + serverOffset)

\* date-fns-tz utcToZonedTime: the Date whose local fields show the wall
\* clock of the zone at the given instant
utcToZonedTime(d, offset) == (d + offset) - serverOffset

\* getJordanTime as if it returned new Date() unconverted
getJordanTime_unzoned == clock

getJordanTime == utcToZonedTime(clock, JordanOffset)

(* --------------------------- generateOrderId -------------------------- *)

\* lines 28-31: the two strings the call derives from the current time
yearString == sliceLast(toString(getFullYear(getJordanTime)), 2)
monthString == padStart(toString(getMonth(getJordanTime) + 1), 2, "0")

\* a month key that leaves the month out
monthKey_yearOnly(year, month) == year

monthKey(year, month) == year \o month

\* doc(db, 'counters', `orders_${monthKey}`): the document key
counterRef(key) == <<"orders_">> \o key

\* transaction.get(counterRef): the snapshot the transaction body sees
counterDoc(ref) ==
  IF ref \in DOMAIN counters
    THEN [exists |-> TRUE, count |-> counters[ref].count,
          updateTime |-> counters[ref].updateTime]
    ELSE [exists |-> FALSE, count |-> 0, updateTime |-> 0]

\* the count without the + 1
currentCount_preIncrement(snap) == IF snap.exists THEN snap.count ELSE 1

\* lines 37-43: the count the ID is built from
currentCount(snap) == IF snap.exists THEN snap.count + 1 ELSE 1

\* a counter document created with count 0
counterWrite_fromZero(snap, ref, key) ==
  IF snap.exists
    THEN [counters EXCEPT ![ref] =
            [@ EXCEPT !.count = @ + 1, !.updateTime = @ + 1]]
    ELSE [r \in DOMAIN counters \cup {ref} |->
            IF r = ref THEN [count |-> 0, month |-> key, updateTime |-> 1]
            ELSE counters[r]]

\* lines 38-43: the write the body queues, applied at commit:
\* update(count: increment(1)) on an existing document, set(count: 1) else
counterWrite(snap, ref, key) ==
  IF snap.exists
    THEN [counters EXCEPT ![ref] =
            [@ EXCEPT !.count = @ + 1, !.updateTime = @ + 1]]
    ELSE [r \in DOMAIN counters \cup {ref} |->
            IF r = ref THEN [count |-> 1, month |-> key, updateTime |-> 1]
            ELSE counters[r]]

\* a read made with getDoc instead of transaction.get carries no precondition
commitPrecondition_plainGet(snap, ref) == TRUE

\* runTransaction commits only when the document read through
\* transaction.get is unchanged since the read (same update time, or
\* still absent)
commitPrecondition(snap, ref) ==
  LET cur == counterDoc(ref)
  IN  /\ cur.exists = snap.exists
      /\ cur.updateTime = snap.updateTime

\* an ID that keeps the last four digits of the count
orderIdString_fourDigits(year, month, count) ==
  <<"T">> \o year \o month
    \o sliceLast(padStart(toString(count), 4, "0"), 4)

\* lines 45-46
orderIdString(year, month, count) ==
  <<"T">> \o year \o month \o padStart(toString(count), 4, "0")

(* ------------------------------ clients ------------------------------- *)

\* a client between calls
Idle == [pc |-> "idle"]

\* the ApiResponse of a call: the function that answered, its success flag
\* (result), and whether the call had changed a stored document (wrote)
Response(op, res, w) == [op |-> op, result |-> res, wrote |-> w]

CanCall(p) == client[p].pc = "idle" /\ calls < MaxCalls

TypeOK ==
  /\ clock \in DateInstants
  /\ serverOffset \in ServerOffsets
  /\ nextId \in 1..(2 * MaxCalls + 1)
  /\ calls \in 0..MaxCalls
  /\ \A p \in Clients :
       client[p].pc \in {"idle", "transaction.get", "commit", "addDoc",
                         "updateDoc", "getOrderById", "init.admin",
                         "init.exchange", "getDocs", "updateDocs"}

\* no request is being served, nothing is subscribed, no AuthProvider is
\* mounted
NoRequest == [pc |-> "none"]
NoSubscription == [pc |-> "none"]
NoAuthProvider == [pc |-> "none"]

\* the account of the exchange office the orders belong to, and one bank
\* account of the platform
InitialUsers ==
  [u \in {"ex1"} |-> [role |-> "exchange", balance |-> 0, updatedAt |-> 0]]
InitialPlatformBanks ==
  [b \in {"bank1"} |-> [balance |-> 0, updatedAt |-> 0]]

Init ==
  /\ clock = 4340
  /\ serverOffset = 0
  /\ counters = << >>
  /\ orders = << >>
  /\ nextId = 1
  /\ client = [p \in Clients |-> Idle]
  /\ response = Response("none", "none", FALSE)
  /\ calls = 0
  /\ issued = << >>
  /\ users = InitialUsers
  /\ platformBanks = InitialPlatformBanks
  /\ messages = << >>
  /\ http = NoRequest
  /\ chat = NoSubscription
  /\ auth = NoAuthProvider

\* time passes
Tick ==
  /\ \E t \in Instants : t > clock /\ clock' = t
  /\ UNCHANGED <<serverOffset, counters, orders, nextId, client, calls,
                 issued, response,
                 otherCollections, appState>>

(* ----------------------------- createOrder ---------------------------- *)

\* createOrder(orderData) up to the start of the transaction of
\* generateOrderId: the month key is fixed here, before runTransaction
createOrder(p, orderData) ==
  /\ CanCall(p)
  /\ client' = [client EXCEPT ![p] =
       [pc |-> "transaction.get", op |-> "createOrder",
        orderData |-> orderData, calledAt |-> clock,
        year |-> yearString, month |-> monthString,
        attempts |-> 1, wrote |-> FALSE]]
  /\ calls' = calls + 1
  /\ UNCHANGED <<clock, serverOffset, counters, orders, nextId, issued,
                 response,
                 otherCollections, appState>>

\* the transaction body: transaction.get, then the queued write and the
\* ID are computed from the snapshot
generateOrderId_get(p) ==
  /\ client[p].pc = "transaction.get"
  /\ LET c == client[p]
         ref == counterRef(monthKey(c.year, c.month))
     IN  client' = [client EXCEPT ![p] =
           [pc |-> "commit", op |-> c.op, orderData |-> c.orderData,
            calledAt |-> c.calledAt,
            year |-> c.year, month |-> c.month, attempts |-> c.attempts,
            wrote |-> FALSE, snap |-> counterDoc(ref)]]
  /\ UNCHANGED <<clock, serverOffset, counters, orders, nextId, calls,
                 issued, response,
                 otherCollections, appState>>

\* the commit succeeds: the counter is written and generateOrderId
\* resolves with the ID; createOrder takes Timestamp.now()
generateOrderId_commit(p) ==
  /\ client[p].pc = "commit"
  /\ LET c == client[p]
         key == monthKey(c.year, c.month)
         ref == counterRef(key)
         id == orderIdString(c.year, c.month, currentCount(c.snap))
     IN  /\ commitPrecondition(c.snap, ref)
         /\ counters' = counterWrite(c.snap, ref, key)
         /\ issued' = Append(issued,
              [orderId |-> id, ref |-> ref, calledAt |-> c.calledAt])
         /\ client' = [client EXCEPT ![p] =
              [pc |-> "addDoc", op |-> c.op, orderData |-> c.orderData,
               orderId |-> id, now |-> clock, attempts |-> c.attempts,
               wrote |-> TRUE]]
  /\ UNCHANGED <<clock, serverOffset, orders, nextId, calls, response,
                 otherCollections, appState>>

\* the commit meets a concurrent change of the counter: the SDK runs the
\* body again while attempts are left
generateOrderId_retry(p) ==
  /\ client[p].pc = "commit"
  /\ LET c == client[p]
         ref == counterRef(monthKey(c.year, c.month))
     IN  /\ ~commitPrecondition(c.snap, ref)
         /\ c.attempts < MaxAttempts
         /\ client' = [client EXCEPT ![p] =
              [pc |-> "transaction.get", op |-> c.op,
               orderData |-> c.orderData, calledAt |-> c.calledAt,
               year |-> c.year, month |-> c.month,
               attempts |-> c.attempts + 1, wrote |-> FALSE]]
  /\ UNCHANGED <<clock, serverOffset, counters, orders, nextId, calls,
                 issued, response,
                 otherCollections, appState>>

\* contention exhausts the attempts: runTransaction rejects, the catch of
\* createOrder (lines 82-88) answers success: false
generateOrderId_exhausted(p) ==
  /\ client[p].pc = "commit"
  /\ LET c == client[p]
         ref == counterRef(monthKey(c.year, c.month))
     IN  /\ ~commitPrecondition(c.snap, ref)
         /\ c.attempts >= MaxAttempts
         /\ client' = [client EXCEPT ![p] = Idle]
         /\ response' = Response(client[p].op, "fail", c.wrote)
  /\ UNCHANGED <<clock, serverOffset, counters, orders, nextId, calls,
                 issued,
                 otherCollections, appState>>

\* a failed allocation answered with the placeholder ID of lib/utils
\* ('0001') instead of an error
generateOrderId_unavailable_fallback(p) ==
  /\ client[p].pc \in {"transaction.get", "commit"}
  /\ LET c == client[p]
     IN  client' = [client EXCEPT ![p] =
           [pc |-> "addDoc", op |-> c.op, orderData |-> c.orderData,
            orderId |-> <<"T">> \o c.year \o c.month \o <<"0", "0", "0", "1">>,
            now |-> clock, attempts |-> c.attempts, wrote |-> FALSE]]
  /\ UNCHANGED <<clock, serverOffset, counters, orders, nextId, calls,
                 issued, response,
                 otherCollections, appState>>

\* the store cannot be reached during the transaction: runTransaction
\* rejects without a commit, createOrder answers success: false
generateOrderId_unavailable(p) ==
  /\ client[p].pc \in {"transaction.get", "commit"}
  /\ client' = [client EXCEPT ![p] = Idle]
  /\ response' = Response(client[p].op, "fail", client[p].wrote)
  /\ UNCHANGED <<clock, serverOffset, counters, orders, nextId, calls,
                 issued,
                 otherCollections, appState>>

\* lines 56-63: the document createOrder stores
\* (a document is a function from field paths to values; in a spread the
\* later keys win, as the left operand of @@ does)
orderWithMetadata(orderData, orderId, now) ==
  ("timestamps.updated" :> now) @@ ("timestamps.created" :> now)
    @@ ("orderId" :> orderId) @@ orderData

\* lines 65-81: addDoc stores the order, createOrder answers success: true
createOrder_addDoc(p) ==
  /\ client[p].pc = "addDoc"
  /\ LET c == client[p]
         d == orderWithMetadata(c.orderData, c.orderId, c.now)
     IN  orders' = [i \in DOMAIN orders \cup {nextId} |->
                      IF i = nextId THEN d ELSE orders[i]]
  /\ nextId' = nextId + 1
  /\ client' = [client EXCEPT ![p] = Idle]
  /\ response' = Response(client[p].op, "ok", TRUE)
  /\ UNCHANGED <<clock, serverOffset, counters, calls, issued,
                 otherCollections, appState>>

\* addDoc rejects: the catch answers success: false
createOrder_addDocError(p) ==
  /\ client[p].pc = "addDoc"
  /\ client' = [client EXCEPT ![p] = Idle]
  /\ response' = Response(client[p].op, "fail", client[p].wrote)
  /\ UNCHANGED <<clock, serverOffset, counters, orders, nextId, calls,
                 issued,
                 otherCollections, appState>>

(* ------------------- updateOrder, updateOrderStatus -------------------- *)

\* timestamps.updated stamped only together with a status
updateData_stampWithStatus(updates, now) ==
  IF "status" \in DOMAIN updates /\ updates.status /= ""
    THEN CASE updates.status = "approved" ->
                ("timestamps.approved" :> now)
                  @@ ("timestamps.updated" :> now) @@ updates
           [] updates.status = "rejected" ->
                ("timestamps.rejected" :> now)
                  @@ ("timestamps.updated" :> now) @@ updates
           [] updates.status = "completed" ->
                ("timestamps.completed" :> now)
                  @@ ("timestamps.updated" :> now) @@ updates
           [] OTHER -> ("timestamps.updated" :> now) @@ updates
    ELSE updates

\* lines 180-199: what updateOrder sends to updateDoc
updateData(updates, now) ==
  LET base == ("timestamps.updated" :> now) @@ updates
  IN  IF "status" \in DOMAIN updates /\ updates.status /= ""
        THEN CASE updates.status = "approved" ->
                    ("timestamps.approved" :> now) @@ base
               [] updates.status = "rejected" ->
                    ("timestamps.rejected" :> now) @@ base
               [] updates.status = "completed" ->
                    ("timestamps.completed" :> now) @@ base
               [] OTHER -> base
        ELSE base

\* updateOrder(orderId, updates) up to the call of updateDoc; caller
\* records which exported function the client called, and with which
\* arguments
updateOrder_called(p, id, updates, caller) ==
  /\ CanCall(p)
  /\ client' = [client EXCEPT ![p] =
       [pc |-> "updateDoc", op |-> "updateOrder", id |-> id,
        updateData |-> updateData(updates, clock), wrote |-> FALSE,
        calledAt |-> clock, caller |-> caller]]
  /\ calls' = calls + 1
  /\ UNCHANGED <<clock, serverOffset, counters, orders, nextId, issued,
                 response,
                 otherCollections, appState>>

updateOrder(p, id, updates) ==
  updateOrder_called(p, id, updates, [fn |-> "updateOrder"])

\* every note stored as adminNotes
statusUpdates_alwaysAdminNotes(status, notes) ==
  IF notes /= Undefined /\ notes /= ""
    THEN [status |-> status, adminNotes |-> notes]
    ELSE [status |-> status]

\* lines 223-231: the updates updateOrderStatus builds
statusUpdates(status, notes) ==
  IF notes /= Undefined /\ notes /= ""
    THEN IF status = "rejected"
           THEN [status |-> status, rejectionReason |-> notes]
           ELSE [status |-> status, adminNotes |-> notes]
    ELSE [status |-> status]

updateOrderStatus(p, id, status, notes) ==
  updateOrder_called(p, id, statusUpdates(status, notes),
    [fn |-> "updateOrderStatus", status |-> status, notes |-> notes])

\* an updateDoc that also credits the submitted amount to the exchange
\* office's balance when the order becomes 'completed'
updateOrder_updateDoc_settle(p) ==
  /\ client[p].pc = "updateDoc"
  /\ client[p].id \in DOMAIN orders
  /\ orders' = [orders EXCEPT ![client[p].id] = client[p].updateData @@ @]
  /\ users' =
       IF /\ "status" \in DOMAIN client[p].updateData
          /\ client[p].updateData.status = "completed"
          /\ orders[client[p].id].exchangeId \in DOMAIN users
         THEN [users EXCEPT ![orders[client[p].id].exchangeId].balance =
                 @ + orders[client[p].id].submittedAmount]
         ELSE users
  /\ client' = [client EXCEPT ![p] =
       [pc |-> "getOrderById", op |-> client[p].op, id |-> client[p].id,
        wrote |-> TRUE]]
  /\ UNCHANGED <<clock, serverOffset, counters, nextId, calls, issued,
                 response, platformBanks, messages, appState>>

\* a setDoc without merge: the document becomes the update data
updateOrder_updateDoc_setDoc(p) ==
  /\ client[p].pc = "updateDoc"
  /\ client[p].id \in DOMAIN orders
  /\ orders' = [orders EXCEPT ![client[p].id] = client[p].updateData]
  /\ client' = [client EXCEPT ![p] =
       [pc |-> "getOrderById", op |-> client[p].op, id |-> client[p].id,
        wrote |-> TRUE]]
  /\ UNCHANGED <<clock, serverOffset, counters, nextId, calls, issued,
                 response,
                 otherCollections, appState>>

\* an updateDoc that is refused on an order whose workflow has ended
updateOrder_updateDoc_validated(p) ==
  /\ client[p].pc = "updateDoc"
  /\ client[p].id \in DOMAIN orders
  /\ orders[client[p].id].status \notin {"completed", "rejected", "cancelled"}
  /\ orders' = [orders EXCEPT ![client[p].id] = client[p].updateData @@ @]
  /\ client' = [client EXCEPT ![p] =
       [pc |-> "getOrderById", op |-> client[p].op, id |-> client[p].id,
        wrote |-> TRUE]]
  /\ UNCHANGED <<clock, serverOffset, counters, nextId, calls, issued,
                 response,
                 otherCollections, appState>>

\* updateDoc merges the fields into the stored document
updateOrder_updateDoc(p) ==
  /\ client[p].pc = "updateDoc"
  /\ client[p].id \in DOMAIN orders
  /\ orders' = [orders EXCEPT ![client[p].id] = client[p].updateData @@ @]
  /\ client' = [client EXCEPT ![p] =
       [pc |-> "getOrderById", op |-> client[p].op, id |-> client[p].id,
        wrote |-> TRUE]]
  /\ UNCHANGED <<clock, serverOffset, counters, nextId, calls, issued,
                 response,
                 otherCollections, appState>>

\* updateDoc rejects (no such document, or the store cannot be reached):
\* the catch of updateOrder answers success: false
updateOrder_updateDocError(p) ==
  /\ client[p].pc = "updateDoc"
  /\ client' = [client EXCEPT ![p] = Idle]
  /\ response' = Response(client[p].op, "fail", client[p].wrote)
  /\ UNCHANGED <<clock, serverOffset, counters, orders, nextId, calls,
                 issued,
                 otherCollections, appState>>

\* lines 202-209: getOrderById finds the document
updateOrder_getOrderById(p) ==
  /\ client[p].pc = "getOrderById"
  /\ client[p].id \in DOMAIN orders
  /\ client' = [client EXCEPT ![p] = Idle]
  /\ response' = Response(client[p].op, "ok", client[p].wrote)
  /\ UNCHANGED <<clock, serverOffset, counters, orders, nextId, calls,
                 issued,
                 otherCollections, appState>>

\* lines 210-218: getOrderById answers no data (the document was deleted
\* meanwhile) or success: false (the read failed); updateOrder throws
\* 'Failed to fetch updated order' and answers success: false
updateOrder_getOrderByIdFailed(p) ==
  /\ client[p].pc = "getOrderById"
  /\ client' = [client EXCEPT ![p] = Idle]
  /\ response' = Response(client[p].op, "fail", client[p].wrote)
  /\ UNCHANGED <<clock, serverOffset, counters, orders, nextId, calls,
                 issued,
                 otherCollections, appState>>

(* ----------------------------- deleteOrder ---------------------------- *)

\* the counters as a delete that hands the sequence number back leaves them
countersAfterDelete_reclaim(id) ==
  IF id \in DOMAIN orders
    THEN LET ref == counterRef(SubSeq(orders[id].orderId, 2, 5))
         IN  [counters EXCEPT ![ref] = [@ EXCEPT !.count = @ - 1]]
    ELSE counters

\* lines 238-239: deleteOrder touches the order document only
countersAfterDelete(id) == counters

\* deleteOrder(orderId): deleteDoc removes the document (and succeeds when
\* there is none); the call has no other step
deleteOrder(p, id) ==
  /\ CanCall(p)
  /\ orders' = [i \in DOMAIN orders \ {id} |-> orders[i]]
  /\ counters' = countersAfterDelete(id)
  /\ calls' = calls + 1
  /\ response' = Response("deleteOrder", "ok", id \in DOMAIN orders)
  /\ UNCHANGED <<clock, serverOffset, nextId, client, issued,
                 otherCollections, appState>>

\* deleteDoc rejects: the catch answers success: false
deleteOrder_deleteDocError(p, id) ==
  /\ CanCall(p)
  /\ calls' = calls + 1
  /\ response' = Response("deleteOrder", "fail", FALSE)
  /\ UNCHANGED <<clock, serverOffset, counters, orders, nextId, client,
                 issued,
                 otherCollections, appState>>

(* ---------------- writers of the other collections -------------------- *)

\* the documents of query(usersRef, where('username', '==', username))
usersNamed(username) ==
  {id \in DOMAIN users : users[id].username = username}

\* the collection with one more document, under a fresh id
usersWith(d) ==
  [i \in DOMAIN users \cup {nextId} |-> IF i = nextId THEN d ELSE users[i]]

\* the balances the callers pass
BalanceInputs == {100}

\* lib/db/users.ts updateUser: updateDoc merges the updates and
\* updatedAt: Timestamp.now() into the user document, which is then read
\* back
updateUser(p, userId, updates) ==
  /\ CanCall(p)
  /\ userId \in DOMAIN users
  /\ users' = [users EXCEPT ![userId] =
       ("updatedAt" :> clock) @@ updates @@ @]
  /\ calls' = calls + 1
  /\ response' = Response("updateUser", "ok", TRUE)
  /\ UNCHANGED <<clock, serverOffset, counters, orders, nextId, client,
                 issued, platformBanks, messages, appState>>

\* updateDoc rejects (no such document, or the store cannot be reached)
updateUser_error(p, userId) ==
  /\ CanCall(p)
  /\ calls' = calls + 1
  /\ response' = Response("updateUser", "fail", FALSE)
  /\ UNCHANGED <<clock, serverOffset, counters, orders, nextId, client,
                 issued, otherCollections, appState>>

\* lib/db/users.ts updateUserBalance
updateUserBalance(p, userId, newBalance) ==
  updateUser(p, userId, [balance |-> newBalance])

\* lib/db/users.ts createUser: addDoc stores the user data with createdAt
\* and updatedAt
createUser(p, userData) ==
  /\ CanCall(p)
  /\ users' = usersWith(
       ("createdAt" :> clock) @@ ("updatedAt" :> clock) @@ userData)
  /\ nextId' = nextId + 1
  /\ calls' = calls + 1
  /\ response' = Response("createUser", "ok", TRUE)
  /\ UNCHANGED <<clock, serverOffset, counters, orders, client, issued,
                 platformBanks, messages, appState>>

\* addDoc rejects
createUser_error(p, userData) ==
  /\ CanCall(p)
  /\ calls' = calls + 1
  /\ response' = Response("createUser", "fail", FALSE)
  /\ UNCHANGED <<clock, serverOffset, counters, orders, nextId, client,
                 issued, otherCollections, appState>>

\* lib/db/banks.ts updatePlatformBankBalance -> updatePlatformBank
updatePlatformBankBalance(p, bankId, newBalance) ==
  /\ CanCall(p)
  /\ bankId \in DOMAIN platformBanks
  /\ platformBanks' = [platformBanks EXCEPT ![bankId] =
       [@ EXCEPT !.balance = newBalance, !.updatedAt = clock]]
  /\ calls' = calls + 1
  /\ response' = Response("updatePlatformBank", "ok", TRUE)
  /\ UNCHANGED <<clock, serverOffset, counters, orders, nextId, client,
                 issued, users, messages, appState>>

\* lib/db/messages.ts createMessage: addDoc stores the message data with
\* timestamp: Timestamp.now()
createMessage(p, messageData) ==
  /\ CanCall(p)
  /\ messages' = Append(messages, ("timestamp" :> clock) @@ messageData)
  /\ calls' = calls + 1
  /\ response' = Response("createMessage", "ok", TRUE)
  /\ UNCHANGED <<clock, serverOffset, counters, orders, nextId, client,
                 issued, users, platformBanks, appState>>

\* lib/db/messages.ts createSystemMessage
createSystemMessage(p, orderId, message) ==
  createMessage(p,
    [orderId |-> orderId, senderId |-> "system", senderRole |-> "admin",
     message |-> message, messageType |-> "system", isRead |-> FALSE])

\* a query for the unread messages of an order, whoever sent them
unreadFromOthers_anySender(orderId, userId) ==
  {i \in 1..Len(messages) :
     /\ messages[i].orderId = orderId
     /\ ~messages[i].isRead}

\* lines 106-111: the documents of the query where orderId == orderId,
\* senderId != userId, isRead == false
unreadFromOthers(orderId, userId) ==
  {i \in 1..Len(messages) :
     /\ messages[i].orderId = orderId
     /\ messages[i].senderId /= userId
     /\ ~messages[i].isRead}

\* lines 135-149: the size of the same query
getUnreadMessageCount(orderId, userId) ==
  Cardinality({i \in 1..Len(messages) :
     /\ messages[i].orderId = orderId
     /\ messages[i].senderId /= userId
     /\ ~messages[i].isRead})

\* markOrderMessagesAsRead(orderId, userId) up to the query
markOrderMessagesAsRead(p, orderId, userId) ==
  /\ CanCall(p)
  /\ client' = [client EXCEPT ![p] =
       [pc |-> "getDocs", op |-> "markOrderMessagesAsRead",
        orderId |-> orderId, userId |-> userId, wrote |-> FALSE]]
  /\ calls' = calls + 1
  /\ UNCHANGED <<clock, serverOffset, counters, orders, nextId, issued,
                 response, otherCollections, appState>>

\* line 113: getDocs answers; one updateDoc per document is started
\* (found and size record what the query saw)
markOrderMessagesAsRead_getDocs(p) ==
  /\ client[p].pc = "getDocs"
  /\ LET c == client[p]
         docs == unreadFromOthers(c.orderId, c.userId)
     IN  client' = [client EXCEPT ![p] =
           [pc |-> "updateDocs", op |-> c.op, orderId |-> c.orderId,
            userId |-> c.userId, wrote |-> FALSE, pending |-> docs,
            found |-> docs, size |-> Len(messages)]]
  /\ UNCHANGED <<clock, serverOffset, counters, orders, nextId, calls,
                 issued, response, otherCollections, appState>>

\* lines 116-118: one of the updateDoc(doc.ref, {isRead: true}) takes effect
markOrderMessagesAsRead_updateDoc(p) ==
  /\ client[p].pc = "updateDocs"
  /\ \E i \in client[p].pending :
       /\ messages' = [messages EXCEPT ![i].isRead = TRUE]
       /\ client' = [client EXCEPT ![p].pending = @ \ {i},
                                   ![p].wrote = TRUE]
  /\ UNCHANGED <<clock, serverOffset, counters, orders, nextId, calls,
                 issued, response, users, platformBanks, appState>>

\* lines 120-125: all updates are done, the call answers success: true
markOrderMessagesAsRead_return(p) ==
  /\ client[p].pc = "updateDocs"
  /\ client[p].pending = {}
  /\ client' = [client EXCEPT ![p] = Idle]
  /\ response' = Response(client[p].op, "ok", client[p].wrote)
  /\ UNCHANGED <<clock, serverOffset, counters, orders, nextId, calls,
                 issued, otherCollections, appState>>

\* lines 126-132: the query or an update rejects, the call answers
\* success: false
markOrderMessagesAsRead_catch(p) ==
  /\ client[p].pc \in {"getDocs", "updateDocs"}
  /\ client' = [client EXCEPT ![p] = Idle]
  /\ response' = Response(client[p].op, "fail", client[p].wrote)
  /\ UNCHANGED <<clock, serverOffset, counters, orders, nextId, calls,
                 issued, otherCollections, appState>>

(* --------------------------- specification ---------------------------- *)

\* the ids the callers pass: those of the stored orders (an order may be
\* deleted before the call reaches the store)
Targets == DOMAIN orders

Next ==
  \/ Tick
  \/ \E p \in Clients, d \in SubmittedOrderData : createOrder(p, d)
  \/ \E p \in Clients : generateOrderId_get(p)
  \/ \E p \in Clients : generateOrderId_commit(p)
  \/ \E p \in Clients : generateOrderId_retry(p)
  \/ \E p \in Clients : generateOrderId_exhausted(p)
  \/ \E p \in Clients : generateOrderId_unavailable(p)
  \/ \E p \in Clients : createOrder_addDoc(p)
  \/ \E p \in Clients : createOrder_addDocError(p)
  \/ \E p \in Clients, id \in Targets, u \in UpdateInputs :
       updateOrder(p, id, u)
  \/ \E p \in Clients, id \in Targets, s \in UpdateStatuses, n \in Notes :
       updateOrderStatus(p, id, s, n)
  \/ \E p \in Clients : updateOrder_updateDoc(p)
  \/ \E p \in Clients : updateOrder_updateDocError(p)
  \/ \E p \in Clients : updateOrder_getOrderById(p)
  \/ \E p \in Clients : updateOrder_getOrderByIdFailed(p)
  \/ \E p \in Clients, id \in Targets : deleteOrder(p, id)
  \/ \E p \in Clients, id \in Targets : deleteOrder_deleteDocError(p, id)

Spec == Init /\ [][Next]_vars

(* ---------- one client, any zone, any instant, any order data ---------- *)

InitOneClient ==
  /\ clock \in DateInstants
  /\ serverOffset \in ServerOffsets
  /\ counters = << >>
  /\ orders = << >>
  /\ nextId = 1
  /\ client = [p \in Clients |-> Idle]
  /\ response = Response("none", "none", FALSE)
  /\ calls = 0
  /\ issued = << >>
  /\ users = InitialUsers
  /\ platformBanks = InitialPlatformBanks
  /\ messages = << >>
  /\ http = NoRequest
  /\ chat = NoSubscription
  /\ auth = NoAuthProvider

TickOneClient ==
  /\ \E t \in DateInstants : t > clock /\ clock' = t
  /\ UNCHANGED <<serverOffset, counters, orders, nextId, client, calls,
                 issued, response,
                 otherCollections, appState>>

NextOneClient ==
  \/ TickOneClient
  \/ \E d \in OrderDataInputs : createOrder(1, d)
  \/ generateOrderId_get(1)
  \/ generateOrderId_commit(1)
  \/ createOrder_addDoc(1)

SpecOneClient == InitOneClient /\ [][NextOneClient]_vars

(* ---------------- a month that already has 9998 orders ----------------- *)

InitBusyMonth ==
  /\ clock = 4340
  /\ serverOffset = 0
  /\ counters =
       (counterRef(<<"2", "5", "0", "6">>) :>
          [count |-> 9998, month |-> <<"2", "5", "0", "6">>,
           updateTime |-> 9998])
  /\ orders = << >>
  /\ nextId = 1
  /\ client = [p \in Clients |-> Idle]
  /\ response = Response("none", "none", FALSE)
  /\ calls = 0
  /\ issued = << >>
  /\ users = InitialUsers
  /\ platformBanks = InitialPlatformBanks
  /\ messages = << >>
  /\ http = NoRequest
  /\ chat = NoSubscription
  /\ auth = NoAuthProvider

SpecBusyMonth == InitBusyMonth /\ [][Next]_vars

(* ------------- the status workflow of one stored order ---------------- *)

\* the first order of June 2025, stored by createOrder at 2025-06-30T20:00Z
InitWorkflow ==
  LET key == <<"2", "5", "0", "6">>
      id == orderIdString(<<"2", "5">>, <<"0", "6">>, 1)
      d == CHOOSE d \in SubmittedOrderData : TRUE
  IN  /\ clock = 4340
      /\ serverOffset = 0
      /\ counters =
           (counterRef(key) :> [count |-> 1, month |-> key, updateTime |-> 1])
      /\ orders = (1 :> orderWithMetadata(d, id, 4340))
      /\ nextId = 2
      /\ client = [p \in Clients |-> Idle]
      /\ response = Response("createOrder", "ok", TRUE)
      /\ calls = 0
      /\ issued =
           <<[orderId |-> id, ref |-> counterRef(key), calledAt |-> 4340]>>
      /\ users = InitialUsers
      /\ platformBanks = InitialPlatformBanks
      /\ messages = << >>
      /\ http = NoRequest
      /\ chat = NoSubscription
      /\ auth = NoAuthProvider
  /\ http = NoRequest
  /\ chat = NoSubscription
  /\ auth = NoAuthProvider

\* any status may follow any status; the callers pass no note
NextWorkflow ==
  \/ Tick
  \/ \E p \in Clients, id \in Targets, s \in OrderStatus :
       updateOrderStatus(p, id, s, Undefined)
  \/ \E p \in Clients : updateOrder_updateDoc(p)
  \/ \E p \in Clients : updateOrder_updateDocError(p)
  \/ \E p \in Clients : updateOrder_getOrderById(p)
  \/ \E p \in Clients : updateOrder_getOrderByIdFailed(p)

SpecWorkflow == InitWorkflow /\ [][NextWorkflow]_vars

(* ------------- notes and direct updates of one stored order ------------ *)

\* the status values the callers pass together with a note
NoteStatuses == {"approved", "rejected", "completed"}

\* the notes the callers pass when they pass one
PassedNotes == Notes \ {Undefined}

\* the updates the callers of updateOrder pass directly
EditInputs == {[exchangeId |-> "ex2", type |-> "outgoing"]}

NextEdits ==
  \/ Tick
  \/ \E p \in Clients, id \in Targets, u \in EditInputs :
       updateOrder(p, id, u)
  \/ \E p \in Clients, id \in Targets, s \in NoteStatuses, n \in PassedNotes :
       updateOrderStatus(p, id, s, n)
  \/ \E p \in Clients : updateOrder_updateDoc(p)
  \/ \E p \in Clients : updateOrder_updateDocError(p)
  \/ \E p \in Clients : updateOrder_getOrderById(p)
  \/ \E p \in Clients : updateOrder_getOrderByIdFailed(p)

SpecEdits == InitWorkflow /\ [][NextEdits]_vars

(* ------- status calls next to the writers of the other collections ----- *)

NextSettlement ==
  \/ Tick
  \/ \E p \in Clients, id \in Targets, s \in UpdateStatuses :
       updateOrderStatus(p, id, s, Undefined)
  \/ \E p \in Clients : updateOrder_updateDoc(p)
  \/ \E p \in Clients : updateOrder_updateDocError(p)
  \/ \E p \in Clients : updateOrder_getOrderById(p)
  \/ \E p \in Clients : updateOrder_getOrderByIdFailed(p)
  \/ \E p \in Clients, u \in DOMAIN users, b \in BalanceInputs :
       updateUserBalance(p, u, b)
  \/ \E p \in Clients, k \in DOMAIN platformBanks, b \in BalanceInputs :
       updatePlatformBankBalance(p, k, b)
  \/ \E p \in Clients, id \in Targets :
       createSystemMessage(p, orders[id].orderId, "Order completed")

SpecSettlement == InitWorkflow /\ [][NextSettlement]_vars

(* --------------------------- route middleware ------------------------- *)

\* paths, as sequences of characters
LoginPath == <<"/", "l", "o", "g", "i", "n">>
AdminPath == <<"/", "a", "d", "m", "i", "n">>
ExchangePath == <<"/", "e", "x", "c", "h", "a", "n", "g", "e">>
DashboardPath == <<"/", "d", "a", "s", "h", "b", "o", "a", "r", "d">>

\* the paths requested
Pathnames ==
  {<<"/">>, LoginPath, AdminPath, ExchangePath, DashboardPath,
   AdminPath \o <<"/", "u", "s", "e", "r", "s">>, AdminPath \o <<"i", "s", "t", "r", "a", "t", "o", "r">>,
   ExchangePath \o <<"/", "o", "r", "d", "e", "r", "s">>, DashboardPath \o <<"/", "s", "t", "a", "t", "s">>,
   <<"/", "a", "d">>}

\* String.prototype.startsWith
startsWith(s, prefix) ==
  Len(s) >= Len(prefix) /\ SubSeq(s, 1, Len(prefix)) = prefix

\* the value of the auth-token cookie: none, the empty string, or a JWT
\* with the key it was signed with, whether it has expired, and its payload
JwtSecret == "JWT_SECRET"
NoCookie == [value |-> Undefined]
EmptyCookie == [value |-> ""]
Tokens ==
  {NoCookie, EmptyCookie}
    \cup [key : {JwtSecret, "another key"}, expired : BOOLEAN,
          payload : [role : {"admin", "exchange"}]]

\* jwt.decode in place of jwt.verify: the payload of any token
verifyToken_decode(token) == token.payload

\* lib/auth verifyToken: the payload of a token that jwt.verify accepts,
\* null otherwise
Null == [value |-> "null"]
verifyToken(token) ==
  IF token.key = JwtSecret /\ ~token.expired THEN token.payload ELSE Null

next == [kind |-> "next"]
redirect(path) == [kind |-> "redirect", to |-> path]

\* lines 6-8
protectedRoutes == {AdminPath, ExchangePath, DashboardPath}
adminOnlyRoutes == {AdminPath}
exchangeOnlyRoutes == {ExchangePath}

\* lines 10-79
middleware(pathname, token) ==
  IF ~(\E route \in protectedRoutes : startsWith(pathname, route))
    THEN next
  ELSE IF token \in {NoCookie, EmptyCookie}
    THEN redirect(LoginPath)
  ELSE LET authData == verifyToken(token)
           isAdminRoute ==
             \E route \in adminOnlyRoutes : startsWith(pathname, route)
           isExchangeRoute ==
             \E route \in exchangeOnlyRoutes : startsWith(pathname, route)
       IN  IF authData = Null THEN redirect(LoginPath)
           ELSE IF isAdminRoute /\ authData.role /= "admin"
             THEN IF authData.role = "exchange"
                    THEN redirect(ExchangePath) ELSE redirect(LoginPath)
           ELSE IF isExchangeRoute /\ authData.role /= "exchange"
             THEN IF authData.role = "admin"
                    THEN redirect(AdminPath) ELSE redirect(LoginPath)
           ELSE IF pathname = DashboardPath /\ authData.role = "admin"
             THEN redirect(AdminPath)
           ELSE IF pathname = DashboardPath /\ authData.role = "exchange"
             THEN redirect(ExchangePath)
           ELSE next

\* a request reaches the middleware
middleware_request ==
  /\ http.pc \in {"none", "response"}
  /\ \E path \in Pathnames, token \in Tokens :
       http' = [pc |-> "request", pathname |-> path, token |-> token]
  /\ UNCHANGED <<clock, serverOffset, counters, orders, nextId, client,
                 calls, issued, response, otherCollections, chat, auth>>

\* the middleware answers it
middleware_respond ==
  /\ http.pc = "request"
  /\ http' = [pc |-> "response", pathname |-> http.pathname,
              token |-> http.token,
              result |-> middleware(http.pathname, http.token)]
  /\ UNCHANGED <<clock, serverOffset, counters, orders, nextId, client,
                 calls, issued, response, otherCollections, chat, auth>>

NextMiddleware == middleware_request \/ middleware_respond

SpecMiddleware == Init /\ [][NextMiddleware]_vars

(* ------------------------- POST /api/auth/login ------------------------ *)

\* usernames, as sequences of characters
AdminName == <<"a", "d", "m", "i", "n">>
ExchangeName == <<"e", "x", "c", "h", "a", "n", "g", "e">>

\* the characters of the class [a-zA-Z0-9_-] that occur in the inputs
UsernameChars ==
  {"a", "b", "c", "d", "e", "g", "h", "i", "m", "n", "o", "x", "1", "_", "-"}

\* /^[a-zA-Z0-9_-]{3,50}$/.test(username)
usernameRegex(username) ==
  /\ Len(username) >= 3
  /\ Len(username) <= 50
  /\ \A i \in 1..Len(username) : username[i] \in UsernameChars

\* bcrypt: the hash of a password, and the comparison of a password with a
\* hash
hashPassword(password) == <<"bcrypt", password>>
verifyPassword(password, hashedPassword) ==
  hashedPassword = hashPassword(password)

\* lib/auth generateToken: a JWT signed with JWT_SECRET
generateToken(user) ==
  [key |-> JwtSecret, expired |-> FALSE,
   payload |-> [userId |-> user.id, username |-> user.username,
                role |-> user.role]]

\* the JSON bodies posted: each of username and password may be absent
LoginUsernames ==
  {<< >>, <<"a", "b">>, AdminName, ExchangeName, <<"n", "o", "b", "o", "d", "y">>, <<"b", "o", "b", "!">>}
LoginPasswords == {"", "admin123", "exchange123", "wrong"}
LoginBodies ==
  {u @@ pw :
     u \in {<< >>} \cup {"username" :> n : n \in LoginUsernames},
     pw \in {<< >>} \cup {"password" :> w : w \in LoginPasswords}}

\* !username, !password: absent or the empty string
noUsername(body) ==
  "username" \notin DOMAIN body \/ body.username = << >>
noPassword(body) ==
  "password" \notin DOMAIN body \/ body.password = ""

\* NextResponse.json(body, {status}) with the cookie the handler has set
json(status, success, cookie) ==
  [status |-> status, success |-> success, cookie |-> cookie]

\* a request reaches the route
login_request ==
  /\ http.pc \in {"none", "response"}
  /\ \E b \in LoginBodies : http' = [pc |-> "login", body |-> b]
  /\ UNCHANGED <<clock, serverOffset, counters, orders, nextId, client,
                 calls, issued, response, otherCollections, chat, auth>>

\* a login that skips the status check
login_POST_result_anyStatus(body, docs) ==
  IF noUsername(body) \/ noPassword(body)
    THEN {json(400, FALSE, NoCookie)}
  ELSE IF ~usernameRegex(body.username)
    THEN {json(400, FALSE, NoCookie)}
  ELSE IF docs = {}
    THEN {json(401, FALSE, NoCookie)}
  ELSE {IF ~verifyPassword(body.password, users[id].password)
          THEN json(401, FALSE, NoCookie)
          ELSE json(200, TRUE,
                 generateToken([id |-> id, username |-> users[id].username,
                                role |-> users[id].role])) : id \in docs}

\* lines 9-90: the responses of a request that meets no exception; docs are
\* the documents of the query, of which the handler takes any as docs[0]
login_POST_result(body, docs) ==
  IF noUsername(body) \/ noPassword(body)
    THEN {json(400, FALSE, NoCookie)}
  ELSE IF ~usernameRegex(body.username)
    THEN {json(400, FALSE, NoCookie)}
  ELSE IF docs = {}
    THEN {json(401, FALSE, NoCookie)}
  ELSE {IF users[id].status /= "active"
          THEN json(401, FALSE, NoCookie)
        ELSE IF ~verifyPassword(body.password, users[id].password)
          THEN json(401, FALSE, NoCookie)
        ELSE json(200, TRUE,
               generateToken([id |-> id, username |-> users[id].username,
                              role |-> users[id].role])) : id \in docs}

\* lines 7-90: the handler answers
login_POST ==
  /\ http.pc = "login"
  /\ LET docs == IF "username" \in DOMAIN http.body
                   THEN {id \in DOMAIN users :
                           users[id].username = http.body.username}
                   ELSE {}
     IN  \E r \in login_POST_result(http.body, docs) :
           http' = [pc |-> "response", body |-> http.body, result |-> r,
                    threw |-> FALSE]
  /\ UNCHANGED <<clock, serverOffset, counters, orders, nextId, client,
                 calls, issued, response, otherCollections, chat, auth>>

\* lines 91-96: request.json(), getDocs, bcrypt or cookies() throws
login_POST_catch ==
  /\ http.pc = "login"
  /\ http' = [pc |-> "response", body |-> http.body,
              result |-> json(500, FALSE, NoCookie), threw |-> TRUE]
  /\ UNCHANGED <<clock, serverOffset, counters, orders, nextId, client,
                 calls, issued, response, otherCollections, chat, auth>>

\* the accounts: an administrator, and two documents with the username
\* 'exchange'; any of them may be inactive
LoginUsers ==
  {[id \in {"u1", "u2", "u3"} |->
      [username |-> IF id = "u1" THEN AdminName ELSE ExchangeName,
       password |-> IF id = "u1" THEN hashPassword("admin123")
                    ELSE IF id = "u2" THEN hashPassword("exchange123")
                    ELSE hashPassword("other123"),
       role |-> IF id = "u1" THEN "admin" ELSE "exchange",
       status |-> st[id]]] :
     st \in [{"u1", "u2", "u3"} -> {"active", "inactive"}]}

InitLogin ==
  /\ clock = 4340
  /\ serverOffset = 0
  /\ counters = << >>
  /\ orders = << >>
  /\ nextId = 1
  /\ client = [p \in Clients |-> Idle]
  /\ response = Response("none", "none", FALSE)
  /\ calls = 0
  /\ issued = << >>
  /\ users \in LoginUsers
  /\ platformBanks = InitialPlatformBanks
  /\ messages = << >>
  /\ http = NoRequest
  /\ chat = NoSubscription
  /\ auth = NoAuthProvider

NextLogin == login_request \/ login_POST \/ login_POST_catch

SpecLogin == InitLogin /\ [][NextLogin]_vars

(* -------------------------- POST /api/auth/init ------------------------ *)

\* lines 25-40 and 52-70: the default users
defaultAdmin(now) ==
  [username |-> AdminName, password |-> hashPassword("admin123"),
   role |-> "admin", balance |-> 0, status |-> "active",
   createdAt |-> now, updatedAt |-> now]
defaultExchange(now) ==
  [username |-> ExchangeName, password |-> hashPassword("exchange123"),
   role |-> "exchange", balance |-> 1000, status |-> "active",
   createdAt |-> now, updatedAt |-> now]

\* lines 9-16: the two queries
init_POST(p) ==
  /\ CanCall(p)
  /\ client' = [client EXCEPT ![p] =
       [pc |-> "init.admin", op |-> "init",
        adminEmpty |-> usersNamed(AdminName) = {},
        exchangeEmpty |-> usersNamed(ExchangeName) = {}, wrote |-> FALSE]]
  /\ calls' = calls + 1
  /\ UNCHANGED <<clock, serverOffset, counters, orders, nextId, issued,
                 response, otherCollections, appState>>

\* lines 21-45: the admin user is written when its snapshot was empty
init_POST_admin(p) ==
  /\ client[p].pc = "init.admin"
  /\ IF client[p].adminEmpty
       THEN /\ users' = usersWith(defaultAdmin(clock))
            /\ nextId' = nextId + 1
       ELSE UNCHANGED <<users, nextId>>
  /\ client' = [client EXCEPT ![p] =
       [pc |-> "init.exchange", op |-> "init",
        exchangeEmpty |-> client[p].exchangeEmpty,
        wrote |-> client[p].adminEmpty]]
  /\ UNCHANGED <<clock, serverOffset, counters, orders, calls, issued,
                 response, platformBanks, messages, appState>>

\* lines 48-81: the exchange user is written when its snapshot was empty,
\* and the route answers success: true
init_POST_exchange(p) ==
  /\ client[p].pc = "init.exchange"
  /\ IF client[p].exchangeEmpty
       THEN /\ users' = usersWith(defaultExchange(clock))
            /\ nextId' = nextId + 1
       ELSE UNCHANGED <<users, nextId>>
  /\ client' = [client EXCEPT ![p] = Idle]
  /\ response' =
       Response("init", "ok", client[p].wrote \/ client[p].exchangeEmpty)
  /\ UNCHANGED <<clock, serverOffset, counters, orders, calls, issued,
                 platformBanks, messages, appState>>

\* lines 82-88: a query or a write rejects, the route answers 500
init_POST_catch(p) ==
  /\ client[p].pc \in {"init.admin", "init.exchange"}
  /\ client' = [client EXCEPT ![p] = Idle]
  /\ response' = Response("init", "fail", client[p].wrote)
  /\ UNCHANGED <<clock, serverOffset, counters, orders, nextId, calls,
                 issued, otherCollections, appState>>

\* a database without users
InitNoUsers ==
  /\ clock = 4340
  /\ serverOffset = 0
  /\ counters = << >>
  /\ orders = << >>
  /\ nextId = 1
  /\ client = [p \in Clients |-> Idle]
  /\ response = Response("none", "none", FALSE)
  /\ calls = 0
  /\ issued = << >>
  /\ users = << >>
  /\ platformBanks = InitialPlatformBanks
  /\ messages = << >>
  /\ http = NoRequest
  /\ chat = NoSubscription
  /\ auth = NoAuthProvider

NextInitRoute ==
  \/ Tick
  \/ \E p \in Clients : init_POST(p)
  \/ \E p \in Clients : init_POST_admin(p)
  \/ \E p \in Clients : init_POST_exchange(p)
  \/ \E p \in Clients : init_POST_catch(p)

SpecInitRoute == InitNoUsers /\ [][NextInitRoute]_vars

(* ------------------------ createUser, updateUser ----------------------- *)

\* the user data and the updates the callers pass
UserDataInputs ==
  [username : {ExchangeName, <<"o", "f", "f", "i", "c", "e", "1">>},
   password : {hashPassword("exchange123")}, role : {"exchange"},
   balance : {0}, status : {"active"}]
UserUpdateInputs == {[username |-> ExchangeName], [status |-> "inactive"]}

NextUsers ==
  \/ Tick
  \/ \E p \in Clients, d \in UserDataInputs : createUser(p, d)
  \/ \E p \in Clients, d \in UserDataInputs : createUser_error(p, d)
  \/ \E p \in Clients, id \in DOMAIN users, u \in UserUpdateInputs :
       updateUser(p, id, u)
  \/ \E p \in Clients, id \in DOMAIN users : updateUser_error(p, id)

SpecUsers == InitNoUsers /\ [][NextUsers]_vars

(* ------------------------ subscribeToChatThread ------------------------ *)

\* the order the chat is about
ChatOrder == "order1"

\* the messages of an order, oldest first
messagesOf(orderId) ==
  SelectSeq(messages, LAMBDA m : m.orderId = orderId)

\* lines 270-297: subscribeToChatThread registers the onSnapshot listener
\* of subscribeToOrderMessages and returns its unsubscribe function
subscribeToChatThread ==
  /\ chat.pc = "none"
  /\ chat' = [pc |-> "subscribed", snapshots |-> 0, seen |-> 0,
              inflight |-> {}, delivered |-> << >>]
  /\ UNCHANGED <<clock, serverOffset, counters, orders, nextId, client,
                 calls, issued, response, otherCollections, http, auth>>

\* lines 184-197 and 276-278: Firestore delivers a snapshot (the first one,
\* or one after the messages changed); the listener starts
\* getUnreadMessageCount for it
subscribeToChatThread_onSnapshot ==
  /\ chat.pc = "subscribed"
  /\ chat.snapshots = 0 \/ chat.seen /= Len(messagesOf(ChatOrder))
  /\ chat' = [chat EXCEPT !.snapshots = @ + 1,
                          !.seen = Len(messagesOf(ChatOrder)),
                          !.inflight = @ \cup
                            {[snapshot |-> chat.snapshots + 1,
                              messages |-> Len(messagesOf(ChatOrder))]}]
  /\ UNCHANGED <<clock, serverOffset, counters, orders, nextId, client,
                 calls, issued, response, otherCollections, http, auth>>

\* lines 278-294: the promise of a getUnreadMessageCount settles (it never
\* rejects) and the then-handler calls the callback with the thread
subscribeToChatThread_callback ==
  /\ chat.pc \in {"subscribed", "unsubscribed"}
  /\ \E l \in chat.inflight :
       chat' = [chat EXCEPT
         !.inflight = @ \ {l},
         !.delivered = Append(@,
           [snapshot |-> l.snapshot, messages |-> l.messages,
            unsubscribed |-> chat.pc = "unsubscribed"])]
  /\ UNCHANGED <<clock, serverOffset, counters, orders, nextId, client,
                 calls, issued, response, otherCollections, http, auth>>

\* the caller calls the function subscribeToChatThread returned
\* (line 297: the unsubscribe of onSnapshot)
subscribeToChatThread_unsubscribe ==
  /\ chat.pc = "subscribed"
  /\ chat' = [chat EXCEPT !.pc = "unsubscribed"]
  /\ UNCHANGED <<clock, serverOffset, counters, orders, nextId, client,
                 calls, issued, response, otherCollections, http, auth>>

NextChat ==
  \/ \E p \in Clients : createSystemMessage(p, ChatOrder, "Order approved")
  \/ subscribeToChatThread
  \/ subscribeToChatThread_onSnapshot
  \/ subscribeToChatThread_callback
  \/ subscribeToChatThread_unsubscribe

SpecChat == Init /\ [][NextChat]_vars

(* ----------------------- markOrderMessagesAsRead ----------------------- *)

\* a text message as the chat passes it to createMessage
textMessage(orderId, senderId) ==
  [orderId |-> orderId, senderId |-> senderId,
   senderRole |-> IF senderId = "admin1" THEN "admin" ELSE "exchange",
   message |-> "hello", messageType |-> "text", isRead |-> FALSE]

ChatOrders == {ChatOrder, "order2"}
ChatUsers == {"admin1", "ex1"}

\* two orders with messages of the administrator and of the exchange
\* office, one of them read already
InitMessages ==
  /\ clock = 4340
  /\ serverOffset = 0
  /\ counters = << >>
  /\ orders = << >>
  /\ nextId = 1
  /\ client = [p \in Clients |-> Idle]
  /\ response = Response("none", "none", FALSE)
  /\ calls = 0
  /\ issued = << >>
  /\ users = InitialUsers
  /\ platformBanks = InitialPlatformBanks
  /\ messages =
       <<("timestamp" :> 4340) @@ textMessage(ChatOrder, "ex1"),
         [("timestamp" :> 4340) @@ textMessage(ChatOrder, "ex1")
            EXCEPT !.isRead = TRUE],
         ("timestamp" :> 4340) @@ textMessage(ChatOrder, "admin1"),
         ("timestamp" :> 4340) @@ textMessage("order2", "ex1")>>
  /\ http = NoRequest
  /\ chat = NoSubscription
  /\ auth = NoAuthProvider

NextMessages ==
  \/ \E p \in Clients, o \in ChatOrders, u \in ChatUsers :
       createMessage(p, textMessage(o, u))
  \/ \E p \in Clients, o \in ChatOrders, u \in ChatUsers :
       markOrderMessagesAsRead(p, o, u)
  \/ \E p \in Clients : markOrderMessagesAsRead_getDocs(p)
  \/ \E p \in Clients : markOrderMessagesAsRead_updateDoc(p)
  \/ \E p \in Clients : markOrderMessagesAsRead_return(p)
  \/ \E p \in Clients : markOrderMessagesAsRead_catch(p)

SpecMessages == InitMessages /\ [][NextMessages]_vars

(* ------------------------------ AuthProvider --------------------------- *)

\* the users the routes answer with
AuthUsers ==
  {[id |-> "u1", username |-> "admin", role |-> "admin"],
   [id |-> "u2", username |-> "exchange", role |-> "exchange"]}

\* what fetch or response.json() rejects with
Thrown == {[name |-> "TypeError", message |-> "Failed to fetch"]}

\* the JSON of /api/auth/me and of /api/auth/login
MeData ==
  {[success |-> TRUE, user |-> u] : u \in AuthUsers}
    \cup {[success |-> FALSE, error |-> "Not authenticated"]}
LoginData ==
  {[success |-> TRUE, user |-> u] : u \in AuthUsers}
    \cup {[success |-> FALSE, error |-> e] :
            e \in {"Invalid credentials", Undefined}}

\* new Error(message)
Error(message) == [name |-> "Error", message |-> message]

\* the promise an async function returned
fulfilled(r, outcome) ==
  [id |-> r.id, fn |-> r.fn, outcome |-> outcome, promise |-> "fulfilled"]
rejected(r, outcome, reason) ==
  [id |-> r.id, fn |-> r.fn, outcome |-> outcome, promise |-> "rejected",
   reason |-> reason]

\* a call waiting for its fetch (errorSet: some call has set error since
\* this one started)
pendingCall(id, fn) ==
  [id |-> id, fn |-> fn, pc |-> "fetch", errorSet |-> FALSE]

\* the other calls in flight after call r has ended, with or without
\* a setError
othersAfter(r, setError) ==
  {[q EXCEPT !.errorSet = @ \/ setError] : q \in auth.requests \ {r}}

\* lines 28-35: useState(null), useState(true), useState(null), and the
\* effect calls checkAuthStatus, which runs up to its fetch
AuthProvider ==
  /\ auth.pc = "none"
  /\ auth' = [pc |-> "mounted", user |-> Null, loading |-> TRUE,
              error |-> Null,
              requests |-> {pendingCall(0, "checkAuthStatus")},
              settled |-> [id |-> -1, fn |-> "none"]]
  /\ UNCHANGED <<clock, serverOffset, counters, orders, nextId, client,
                 calls, issued, response, otherCollections, http, chat>>

\* lines 56-66 and 85-92: login and logout run up to their fetch
callStarts(fn) ==
  /\ auth.pc = "mounted"
  /\ calls < MaxCalls
  /\ auth' = [auth EXCEPT !.loading = TRUE, !.error = Null,
                          !.requests = @ \cup {pendingCall(calls + 1, fn)}]
  /\ calls' = calls + 1
  /\ UNCHANGED <<clock, serverOffset, counters, orders, nextId, client,
                 issued, response, otherCollections, http, chat>>

login == callStarts("login")
logout == callStarts("logout")

\* lines 102-104
clearError ==
  /\ auth.pc = "mounted"
  /\ auth.error /= Null
  /\ auth' = [auth EXCEPT !.error = Null]
  /\ UNCHANGED <<clock, serverOffset, counters, orders, nextId, client,
                 calls, issued, response, otherCollections, http, chat>>

\* the call r ends: the state it leaves and the promise it settles
callEnds(r, user, error, promise) ==
  /\ auth' = [auth EXCEPT !.user = user, !.error = error,
                          !.loading = FALSE,
                          !.requests = othersAfter(r, error /= auth.error),
                          !.settled = promise]
  /\ UNCHANGED <<clock, serverOffset, counters, orders, nextId, client,
                 calls, issued, response, otherCollections, http, chat>>

\* the call with this id, if it is in flight
callsWithId(i) == {r \in auth.requests : r.id = i}

\* lines 39 and 60-66: the fetch of checkAuthStatus or login answers
fetch_response(i) ==
  /\ auth.pc = "mounted"
  /\ \E r \in callsWithId(i) :
       /\ r.fn \in {"checkAuthStatus", "login"}
       /\ r.pc = "fetch"
       /\ auth' = [auth EXCEPT
            !.requests = (@ \ {r}) \cup {[r EXCEPT !.pc = "json"]}]
  /\ UNCHANGED <<clock, serverOffset, counters, orders, nextId, client,
                 calls, issued, response, otherCollections, http, chat>>

\* lines 40-52: response.json() answers; setUser, then finally
checkAuthStatus_json(i, data) ==
  /\ auth.pc = "mounted"
  /\ \E r \in callsWithId(i) :
       /\ r.fn = "checkAuthStatus"
       /\ r.pc = "json"
       /\ callEnds(r, IF data.success THEN data.user ELSE Null, auth.error,
                   fulfilled(r, [data |-> data]))

\* lines 47-52: fetch or response.json() rejects; the error is logged and
\* not thrown again
checkAuthStatus_catch(i, thrown) ==
  /\ auth.pc = "mounted"
  /\ \E r \in callsWithId(i) :
       /\ r.fn = "checkAuthStatus"
       /\ callEnds(r, Null, auth.error, fulfilled(r, [thrown |-> thrown]))

\* line 75
instanceofError(error) ==
  error.name \in {"Error", "TypeError", "SyntaxError"}
errorMessage(error) ==
  IF instanceofError(error) THEN error.message ELSE "Login failed"

\* lines 74-80: setError(errorMessage); throw error; finally
login_failed(r, outcome, error) ==
  callEnds(r, auth.user, [value |-> errorMessage(error)],
           rejected(r, outcome, error))

\* lines 68-80: response.json() answers
login_json(i, data) ==
  /\ auth.pc = "mounted"
  /\ \E r \in callsWithId(i) :
       /\ r.fn = "login"
       /\ r.pc = "json"
       /\ IF data.success
            THEN callEnds(r, data.user, auth.error,
                          fulfilled(r, [data |-> data]))
            ELSE login_failed(r, [data |-> data],
                   Error(IF data.error \in {Undefined, ""}
                           THEN "Login failed" ELSE data.error))

\* lines 74-80: fetch or response.json() rejects
login_catch(i, thrown) ==
  /\ auth.pc = "mounted"
  /\ \E r \in callsWithId(i) :
       /\ r.fn = "login"
       /\ login_failed(r, [thrown |-> thrown], thrown)

\* lines 89-99: the fetch of logout answers (its body is not read)
logout_response(i) ==
  /\ auth.pc = "mounted"
  /\ \E r \in callsWithId(i) :
       /\ r.fn = "logout"
       /\ callEnds(r, Null, auth.error, fulfilled(r, [data |-> "ignored"]))

\* lines 94-99: the fetch of logout rejects
logout_catch(i, thrown) ==
  /\ auth.pc = "mounted"
  /\ \E r \in callsWithId(i) :
       /\ r.fn = "logout"
       /\ callEnds(r, auth.user, [value |-> "Logout failed"],
                   fulfilled(r, [thrown |-> thrown]))

\* the ids of the calls: 0 is the checkAuthStatus of the mount
CallIds == 0..MaxCalls

\* the request of call i moves on
settles(i) ==
  \/ fetch_response(i)
  \/ \E data \in MeData : checkAuthStatus_json(i, data)
  \/ \E thrown \in Thrown : checkAuthStatus_catch(i, thrown)
  \/ \E data \in LoginData : login_json(i, data)
  \/ \E thrown \in Thrown : login_catch(i, thrown)
  \/ logout_response(i)
  \/ \E thrown \in Thrown : logout_catch(i, thrown)

NextAuth ==
  \/ AuthProvider
  \/ login
  \/ logout
  \/ clearError
  \/ \E i \in CallIds : settles(i)

SpecAuth == Init /\ [][NextAuth]_vars

\* every fetch and every response.json() settles
SpecAuthFair == SpecAuth /\ \A i \in CallIds : WF_vars(settles(i))

(* ------------------------------ properties ---------------------------- *)

\* the parts of an order ID: month key (YYMM) and sequence number
IdMonthKey(id) == SubSeq(id, 2, 5)
IdSeq(id) == parseInt(SubSeq(id, 6, Len(id)))

\* the month keys of the IDs issued so far
IssuedKeys == {IdMonthKey(issued[i].orderId) : i \in 1..Len(issued)}

\* the IDs issued for one month key, in commit order
IssuedFor(key) ==
  SelectSeq(issued, LAMBDA e : IdMonthKey(e.orderId) = key)

\* the stored count of a month key, 0 when there is no document
StoredCount(key) ==
  IF counterRef(key) \in DOMAIN counters
    THEN counters[counterRef(key)].count ELSE 0

\* C1: no two successful generateOrderId calls return the same order ID,
\* whatever the interleaving of reads, conflicts, retries and commits, and
\* a transaction commits only while the counter it read is as it read it
C1_NoDuplicateOrderId ==
  /\ [](\A i, j \in 1..Len(issued) :
          i /= j => issued[i].orderId /= issued[j].orderId)
  /\ [][\A p \in Clients :
          (client[p].pc = "commit" /\ client'[p].pc = "addDoc") =>
            LET ref == counterRef(monthKey(client[p].year, client[p].month))
            IN  /\ (ref \in DOMAIN counters) = client[p].snap.exists
                /\ client[p].snap.exists =>
                      counters[ref].count = client[p].snap.count]_vars

\* a client committed on a retry, after another client's commit
C1_Witness ==
  /\ Len(issued) >= 2
  /\ \E p \in Clients : client[p].pc = "addDoc" /\ client[p].attempts > 1

\* C2: the sequence numbers issued for a month are 1, 2, ..., n in commit
\* order: no gap, no duplicate
C2_GaplessInCommitOrder ==
  \A key \in IssuedKeys :
    LET s == IssuedFor(key)
    IN  \A i \in 1..Len(s) : IdSeq(s[i].orderId) = i

\* three IDs of one month were issued, one of them on a retry
C2_Witness ==
  /\ \E key \in IssuedKeys : Len(IssuedFor(key)) >= 3
  /\ \E p \in Clients : client[p].pc = "addDoc" /\ client[p].attempts > 1

\* C3: the stored counter of a month equals the number of committed
\* allocations for it and the sequence number of the last ID issued for it
\* (a first allocation creates the document with count 1 and returns 1)
C3_CounterIsCountAndLastSequence ==
  /\ \A ref \in DOMAIN counters :
       /\ ref = counterRef(counters[ref].month)
       /\ counters[ref].month \in IssuedKeys
  /\ \A key \in IssuedKeys :
       LET s == IssuedFor(key)
       IN  /\ counterRef(key) \in DOMAIN counters
           /\ StoredCount(key) = Len(s)
           /\ IdSeq(s[Len(s)].orderId) = StoredCount(key)

\* one month has its first allocation only, another has two
C3_Witness ==
  \E k1, k2 \in IssuedKeys : StoredCount(k1) = 1 /\ StoredCount(k2) = 2

\* C4: a call of createOrder, updateOrder or updateOrderStatus that
\* answers success: false has changed no stored document
C4_FailureLeavesStateUnchanged ==
  (response.op \in {"createOrder", "updateOrder"} /\ response.result = "fail")
    => ~response.wrote

\* C5: an order document exists only for an ID that generateOrderId
\* returned, and its sequence number lies between 1 and the stored counter
\* of its month; a createOrder whose transaction did not commit has answered
\* success: false without a write
C5_OrdersCarryAllocatedIds ==
  /\ \A id \in DOMAIN orders :
       LET o == orders[id]
       IN  /\ \E i \in 1..Len(issued) : issued[i].orderId = o.orderId
           /\ 1 <= IdSeq(o.orderId)
           /\ IdSeq(o.orderId) <= StoredCount(IdMonthKey(o.orderId))
  /\ Cardinality(DOMAIN orders) <= Len(issued)
  /\ \A p \in Clients :
       client[p].pc \in {"transaction.get", "commit"} => ~client[p].wrote

\* a createOrder failed in its transaction while an order is stored
C5_Witness ==
  /\ response = Response("createOrder", "fail", FALSE)
  /\ DOMAIN orders /= {}

\* C6: the first ID of a month has sequence 1 whatever was issued for other
\* months, and an allocation changes the counter of its own month only
C6_MonthsAreIndependent ==
  [][Len(issued') > Len(issued) =>
       LET e == issued'[Len(issued')]
           key == IdMonthKey(e.orderId)
       IN  /\ key \notin IssuedKeys => IdSeq(e.orderId) = 1
           /\ \A ref \in DOMAIN counters :
                ref /= counterRef(key) =>
                  /\ ref \in DOMAIN counters'
                  /\ counters'[ref] = counters[ref]
           /\ DOMAIN counters' = DOMAIN counters \cup {counterRef(key)}]_vars

\* a month with two allocations is followed by a month with its first
C6_Witness ==
  /\ Len(issued) = 3
  /\ IdMonthKey(issued[1].orderId) = IdMonthKey(issued[2].orderId)
  /\ IdMonthKey(issued[3].orderId) /= IdMonthKey(issued[1].orderId)
  /\ IdSeq(issued[3].orderId) = 1

\* C7: the YY and MM of an issued ID and of its counter key are those of
\* the Amman wall clock (UTC+3) at the instant of the call, on a machine in
\* any zone; a call at 2025-06-30T22:00Z uses orders_2507 and yields T2507...
C7_JordanMonthAtCallTime ==
  \A i \in 1..Len(issued) :
    LET e == issued[i]
        h == e.calledAt + JordanOffset
    IN  /\ SubSeq(e.orderId, 2, 3)
             = padStart(toString(WallYear(h) % 100), 2, "0")
        /\ SubSeq(e.orderId, 4, 5)
             = padStart(toString(WallMonth(h) + 1), 2, "0")
        /\ e.ref = <<"orders_">> \o SubSeq(e.orderId, 2, 5)
        /\ e.ref \in DOMAIN counters
        /\ e.calledAt = 4342 =>
             /\ SubSeq(e.orderId, 1, 5) = <<"T", "2", "5", "0", "7">>
             /\ e.ref = <<"orders_", "2", "5", "0", "7">>

\* an ID was issued for a call at 2025-06-30T22:00Z on a machine at UTC-5
C7_Witness ==
  /\ serverOffset = -5
  /\ \E i \in 1..Len(issued) : issued[i].calledAt = 4342

\* C8: every issued ID is 'T' followed by eight digits (YY, MM, four-digit
\* sequence), the sequence being the stored count after the commit
C8_NineCharacterOrderId ==
  [][Len(issued') > Len(issued) =>
       LET e == issued'[Len(issued')]
       IN  /\ Len(e.orderId) = 9
           /\ e.orderId[1] = "T"
           /\ \A k \in 2..Len(e.orderId) :
                e.orderId[k] \in {Digit(d) : d \in 0..9}
           /\ IdSeq(e.orderId) = counters'[e.ref].count]_vars

\* C9: no step lowers or removes a counter, and a newly issued sequence
\* number is above every number issued before for its month, also after
\* orders were deleted or failed to be stored
C9_CountersNeverGoBack ==
  [][/\ \A ref \in DOMAIN counters :
          /\ ref \in DOMAIN counters'
          /\ counters'[ref].count >= counters[ref].count
     /\ Len(issued') > Len(issued) =>
          LET e == issued'[Len(issued')]
          IN  \A i \in 1..Len(issued) :
                IdMonthKey(issued[i].orderId) = IdMonthKey(e.orderId)
                  => IdSeq(e.orderId) > IdSeq(issued[i].orderId)]_vars

\* the first order was deleted and a second one stored: it carries
\* sequence 2
C9_Witness ==
  /\ DOMAIN orders = {2}
  /\ IdSeq(orders[2].orderId) = 2
  /\ Len(issued) = 2

\* C10: an order document that createOrder adds has status 'submitted'
C10_CreatedOrdersAreSubmitted ==
  [][\A id \in DOMAIN orders' \ DOMAIN orders :
       orders'[id].status = "submitted"]_vars

(* ----------------------- status workflow properties -------------------- *)

\* the stored orders that a step keeps
Kept == DOMAIN orders \cap DOMAIN orders'

\* the step in which the updateDoc of client p's updateOrder takes effect
updateDocStep(p) ==
  client[p].pc = "updateDoc" /\ client'[p].pc = "getOrderById"

\* C11: no updateOrder / updateOrderStatus call gives an order the status
\* 'submitted' after it held another status: 'submitted' is entered at
\* creation only
C11_SubmittedOnlyAtCreation ==
  [][\A id \in Kept :
       orders[id].status /= "submitted" =>
         orders'[id].status /= "submitted"]_vars

\* the statuses the workflow ends in
TerminalStatuses == {"completed", "rejected", "cancelled"}

\* C12: once the status of an order is 'completed', 'rejected' or
\* 'cancelled', a later updateOrderStatus call on it is refused and leaves
\* the status and the rest of the order as they were
C12_TerminalStatusesAreFinal ==
  [][\A id \in Kept :
       orders[id].status \in TerminalStatuses => orders'[id] = orders[id]]_vars

\* the timestamp fields of an order, and the one a target status stamps
\* besides timestamps.updated
StatusTimestamps ==
  {"timestamps.approved", "timestamps.rejected", "timestamps.completed"}
StampOf(status) ==
  CASE status = "approved" -> {"timestamps.approved"}
    [] status = "rejected" -> {"timestamps.rejected"}
    [] status = "completed" -> {"timestamps.completed"}
    [] OTHER -> {}

C14_UpdatedNeverDecreases ==
  [][\A id \in Kept :
       orders'[id]["timestamps.updated"]
         >= orders[id]["timestamps.updated"]]_vars

\* C15: the updateDoc of every updateOrder / updateOrderStatus call writes
\* timestamps.updated with the time taken at the start of the call, whether
\* or not the call changes the status; a call that answers success: true
\* has written
C15_UpdatedIsCallTime ==
  /\ [][\A p \in Clients :
          updateDocStep(p) =>
            orders'[client[p].id]["timestamps.updated"]
              = client[p].calledAt]_vars
  /\ []((response.op = "updateOrder" /\ response.result = "ok")
          => response.wrote)

\* a direct updateOrder at 2025-06-30T22:00Z left the status 'submitted'
C15_Witness ==
  /\ response = Response("updateOrder", "ok", TRUE)
  /\ calls = 1
  /\ orders[1].status = "submitted"
  /\ orders[1].exchangeId = "ex2"
  /\ orders[1]["timestamps.updated"] = 4342
  /\ orders[1]["timestamps.created"] = 4340

\* C16: timestamps.approved, timestamps.rejected and timestamps.completed
\* are each written once, when the order first reaches the status: a later
\* transition to the same status leaves the timestamp as it was
C16_StatusTimestampsWrittenOnce ==
  [][\A id \in Kept, f \in StatusTimestamps :
       f \in DOMAIN orders[id] =>
         /\ f \in DOMAIN orders'[id]
         /\ orders'[id][f] = orders[id][f]]_vars

\* the field a note goes to, and the other note field
NoteField(status) ==
  IF status = "rejected" THEN "rejectionReason" ELSE "adminNotes"
OtherNoteField(status) ==
  IF status = "rejected" THEN "adminNotes" ELSE "rejectionReason"

\* field f of the order is after the step what it was before
FieldKept(id, f) ==
  /\ (f \in DOMAIN orders'[id]) = (f \in DOMAIN orders[id])
  /\ f \in DOMAIN orders[id] => orders'[id][f] = orders[id][f]

\* the note n passed by client p is stored in the field of the target
\* status and the other note field is left as it was
NoteRouted(p, n) ==
  (/\ updateDocStep(p)
   /\ client[p].caller.fn = "updateOrderStatus"
   /\ client[p].caller.notes = n) =>
    LET id == client[p].id
        target == client[p].caller.status
    IN  /\ NoteField(target) \in DOMAIN orders'[id]
        /\ orders'[id][NoteField(target)] = n
        /\ FieldKept(id, OtherNoteField(target))

\* C17 as stated: a note passed to updateOrderStatus is stored in exactly
\* one field chosen by the target status: rejectionReason for 'rejected',
\* adminNotes for every other target, the other field being left as it was
C17_NoteStoredInOneField ==
  [][\A p \in Clients, n \in PassedNotes : NoteRouted(p, n)]_vars

\* C17 amended: a non-empty note passed to updateOrderStatus is stored in
\* exactly one field chosen by the target status (rejectionReason for
\* 'rejected', adminNotes for every other target, the other field left as
\* it was); an empty note is stored in no field and leaves both as they were
C17_NonEmptyNoteStoredInOneField ==
  [][\A p \in Clients :
       /\ \A n \in PassedNotes \ {""} : NoteRouted(p, n)
       /\ (/\ updateDocStep(p)
           /\ client[p].caller.fn = "updateOrderStatus"
           /\ client[p].caller.notes = "") =>
            /\ FieldKept(client[p].id, "adminNotes")
            /\ FieldKept(client[p].id, "rejectionReason")]_vars

\* an order approved with a note was then rejected with a note
C17_Witness ==
  /\ calls = 2
  /\ orders[1].status = "rejected"
  /\ "timestamps.approved" \in DOMAIN orders[1]
  /\ "adminNotes" \in DOMAIN orders[1]
  /\ "rejectionReason" \in DOMAIN orders[1]
  /\ orders[1].adminNotes = "note"
  /\ orders[1].rejectionReason = "note"

\* the fields an updateOrderStatus call with the given target may change
StatusCallFields(target) ==
  {"status", NoteField(target), "timestamps.updated"} \cup StampOf(target)

\* C18: an updateOrderStatus call changes only status, the note field it
\* routes to, timestamps.updated and the timestamp of its target status;
\* every other field keeps its value, among them orderId, exchangeId, type,
\* the amounts, screenshots, timestamps.created and the approved / rejected
\* / completed timestamp of another status; no other order is touched
C18_StatusCallFrame ==
  [][\A p \in Clients :
       (updateDocStep(p) /\ client[p].caller.fn = "updateOrderStatus") =>
         LET id == client[p].id
             target == client[p].caller.status
         IN  /\ \A f \in (DOMAIN orders[id] \cup DOMAIN orders'[id])
                           \ StatusCallFields(target) : FieldKept(id, f)
             /\ {"orderId", "exchangeId", "type", "submittedAmount",
                 "commission", "screenshots", "timestamps.created"}
                  \subseteq DOMAIN orders'[id]
             /\ DOMAIN orders' = DOMAIN orders
             /\ \A i \in DOMAIN orders \ {id} : orders'[i] = orders[i]]_vars

\* an order approved at 2025-06-30T20:00Z was completed at 22:00Z
C18_Witness ==
  /\ calls = 2
  /\ orders[1].status = "completed"
  /\ "timestamps.approved" \in DOMAIN orders[1]
  /\ orders[1]["timestamps.approved"] = 4340
  /\ orders[1]["timestamps.completed"] = 4342
  /\ orders[1]["timestamps.created"] = 4340
  /\ orders[1].exchangeId = "ex1"
  /\ orders[1].submittedAmount = 1000

\* a step of client p's updateOrder / updateOrderStatus call: the call, the
\* updateDoc, the read back or the answer
updateOrderStepOf(p) ==
  /\ client'[p] /= client[p]
  /\ \/ client[p].pc \in {"updateDoc", "getOrderById"}
     \/ client'[p].pc \in {"updateDoc", "getOrderById"}

\* C19: a status transition, the one to 'completed' included, writes to the
\* one order document only: the user balances, the platform bank balances,
\* the messages and the order-ID counters are as they were
C19_StatusCallWritesOneOrder ==
  [][\A p \in Clients :
       updateOrderStepOf(p) =>
         /\ users' = users
         /\ platformBanks' = platformBanks
         /\ messages' = messages
         /\ counters' = counters
         /\ DOMAIN orders' = DOMAIN orders
         /\ LET id == IF client[p].pc = "idle" THEN client'[p].id
                      ELSE client[p].id
            IN  \A i \in DOMAIN orders \ {id} : orders'[i] = orders[i]]_vars

\* an order was completed after a balance had been set: the balance stands
C19_Witness ==
  /\ response = Response("updateOrder", "ok", TRUE)
  /\ orders[1].status = "completed"
  /\ users["ex1"].balance = 100
  /\ platformBanks["bank1"].balance = 0
  /\ messages = << >>
  /\ http = NoRequest
  /\ chat = NoSubscription
  /\ auth = NoAuthProvider

\* C20: once an order is stored, no updateOrder or updateOrderStatus call
\* changes its exchangeId or its type
C20_ExchangeAndTypeImmutable ==
  [][\A id \in Kept :
       /\ orders'[id].exchangeId = orders[id].exchangeId
       /\ orders'[id].type = orders[id].type]_vars

(* ------------------------- middleware properties ----------------------- *)

\* the cookie holds a JWT signed with the server's secret and not expired
TokenVerifies(token) ==
  /\ token \notin {NoCookie, EmptyCookie}
  /\ token.key = JwtSecret
  /\ ~token.expired

\* C21: the middleware lets a request to a path starting with /admin
\* through only when the auth-token cookie verifies and its role is
\* 'admin', to a path starting with /exchange only when it verifies and its
\* role is 'exchange'; a protected path (/admin, /exchange, /dashboard)
\* with a missing or invalid token is redirected to /login, and a valid
\* token of the other role is redirected to that role's own dashboard
C21_MiddlewareGuardsRoutes ==
  http.pc = "response" =>
    LET path == http.pathname
        token == http.token
        r == http.result
    IN  /\ (startsWith(path, AdminPath) /\ r = [kind |-> "next"]) =>
             (TokenVerifies(token) /\ token.payload.role = "admin")
        /\ (startsWith(path, ExchangePath) /\ r = [kind |-> "next"]) =>
             (TokenVerifies(token) /\ token.payload.role = "exchange")
        /\ ((\/ startsWith(path, AdminPath)
             \/ startsWith(path, ExchangePath)
             \/ startsWith(path, DashboardPath)) /\ ~TokenVerifies(token))
             => r = [kind |-> "redirect", to |-> LoginPath]
        /\ (/\ TokenVerifies(token)
            /\ token.payload.role = "exchange"
            /\ startsWith(path, AdminPath))
             => r = [kind |-> "redirect", to |-> ExchangePath]
        /\ (/\ TokenVerifies(token)
            /\ token.payload.role = "admin"
            /\ startsWith(path, ExchangePath))
             => r = [kind |-> "redirect", to |-> AdminPath]

\* a valid exchange token asked for /admin/users and was sent to /exchange
C21_Witness ==
  /\ http.pc = "response"
  /\ http.pathname = AdminPath \o <<"/", "u", "s", "e", "r", "s">>
  /\ TokenVerifies(http.token)
  /\ http.token.payload.role = "exchange"
  /\ http.result = [kind |-> "redirect", to |-> ExchangePath]

(* ---------------------------- login properties ------------------------- *)

\* the user documents a login body can mean: same username, active,
\* password matching the stored hash
LoginMatches(body) ==
  IF "username" \in DOMAIN body /\ "password" \in DOMAIN body
    THEN {id \in DOMAIN users :
            /\ users[id].username = body.username
            /\ users[id].status = "active"
            /\ users[id].password = <<"bcrypt", body.password>>}
    ELSE {}

\* C22: POST /api/auth/login sets the auth-token cookie and answers
\* success: true only when a user with the given username exists, is
\* 'active' and the password verifies against the stored hash; in every
\* other case no cookie is set and the answer is an error: 400 for a
\* missing or malformed username / password, 401 for an unknown user, an
\* inactive account or a wrong password, 500 on an exception
C22_LoginOnlyForActiveUserWithPassword ==
  (http.pc = "response" /\ "body" \in DOMAIN http) =>
    LET b == http.body
        r == http.result
        missing == noUsername(b) \/ noPassword(b)
        malformed == ~missing /\ ~usernameRegex(b.username)
        named == IF "username" \in DOMAIN b
                   THEN {id \in DOMAIN users : users[id].username = b.username}
                   ELSE {}
    IN  /\ r.success = (r.cookie /= NoCookie)
        /\ r.success = (r.status = 200)
        /\ r.success =>
             /\ ~missing /\ ~malformed /\ ~http.threw
             /\ r.cookie.payload.userId \in LoginMatches(b)
             /\ r.cookie.payload.role = users[r.cookie.payload.userId].role
        /\ LoginMatches(b) = {} => ~r.success
        /\ ~r.success => r.status \in {400, 401, 500}
        /\ (r.status = 500) = http.threw
        /\ (r.status = 400) = (~http.threw /\ (missing \/ malformed))
        /\ r.status = 401 =>
             \/ named = {}
             \/ \E id \in named : users[id].status /= "active"
             \/ \E id \in named :
                  users[id].password /= <<"bcrypt", b.password>>

\* the administrator logged in while an account named 'exchange' was
\* inactive
C22_Witness ==
  /\ http.pc = "response"
  /\ "body" \in DOMAIN http
  /\ http.result.success
  /\ http.result.cookie.payload.role = "admin"
  /\ users["u2"].status = "inactive"

(* ----------------------------- user properties ------------------------- *)

\* C23: after any number of POST /api/auth/init calls, concurrent ones
\* included, the users collection holds at most one user named 'admin' and
\* at most one named 'exchange'
C23_InitCreatesDefaultUsersOnce ==
  /\ Cardinality(usersNamed(AdminName)) <= 1
  /\ Cardinality(usersNamed(ExchangeName)) <= 1

\* C24: usernames are unique in the users collection: no sequence of
\* createUser and updateUser calls leaves two user documents with the same
\* username
C24_UsernamesUnique ==
  \A i, j \in DOMAIN users :
    i /= j => users[i].username /= users[j].username

(* ----------------------------- chat properties ------------------------- *)

\* C25: once the unsubscribe function of subscribeToChatThread has been
\* called the callback is not invoked again, and the threads delivered to
\* the callback arrive in the order of the message snapshots they were
\* built from
C25_NoDeliveryAfterUnsubscribeAndInOrder ==
  chat.pc /= "none" =>
    /\ \A i \in 1..Len(chat.delivered) : ~chat.delivered[i].unsubscribed
    /\ \A i, j \in 1..Len(chat.delivered) :
         i < j => chat.delivered[i].snapshot < chat.delivered[j].snapshot

(* ------------------- status timestamps and call results ---------------- *)

\* C26: for an order whose status changes through updateOrder /
\* updateOrderStatus only, timestamps.approved (rejected, completed) is
\* present if and only if an earlier successful call set the status to
\* 'approved' ('rejected', 'completed').  Stated here for what the stored
\* order and the last answer show: an order whose status is 'approved',
\* 'rejected' or 'completed' has the timestamp of that status, and while
\* the only call made so far has answered success: false no such
\* timestamp is present
C26_StatusTimestampIffSuccessfulCall ==
  /\ \A id \in DOMAIN orders :
       StampOf(orders[id].status) \subseteq DOMAIN orders[id]
  /\ (/\ calls = 1
      /\ \A p \in Clients : client[p].pc = "idle"
      /\ response.op = "updateOrder"
      /\ response.result = "fail") =>
       \A id \in DOMAIN orders :
         DOMAIN orders[id] \cap StatusTimestamps = {}

(* ------------------------ more than 9999 orders ------------------------ *)

\* sequence numbers whose IDs a truncated or wrapped 10000 would repeat
EarlierSequences == {1, 1000, 9999}

ToMark(orderId, userId) ==
  {i \in 1..Len(messages) :
     /\ messages[i].orderId = orderId
     /\ messages[i].senderId /= userId
     /\ messages[i].isRead = FALSE}

\* the messages other than those in S are the same after the step
MessagesKeptOutside(S) ==
  /\ Len(messages') = Len(messages)
  /\ \A i \in (1..Len(messages)) \ S : messages'[i] = messages[i]

\* what one step of the call of client p does
markOrderMessagesAsReadStep(p) ==
  LET c == client[p] IN
  /\ (c.pc = "getDocs" /\ client'[p].pc = "updateDocs") =>
       /\ client'[p].found = ToMark(c.orderId, c.userId)
       /\ messages' = messages
  /\ (c.pc = "updateDocs" /\ client'[p].pc = "updateDocs"
        /\ client'[p].pending /= c.pending) =>
       \E i \in c.found :
         /\ messages[i].orderId = c.orderId
         /\ messages[i].senderId /= c.userId
         /\ messages'[i] = [messages[i] EXCEPT !.isRead = TRUE]
         /\ MessagesKeptOutside({i})
  /\ (c.pc = "updateDocs" /\ client'[p].pc = "idle"
        /\ response'.result = "ok") =>
       /\ messages' = messages
       /\ \A i \in c.found : messages[i].isRead
       /\ Len(messages) = c.size =>
            getUnreadMessageCount(c.orderId, c.userId) = 0

\* C28: markOrderMessagesAsRead(orderId, userId) marks exactly the messages
\* of the order that its query found unread and not sent by userId: each of
\* its writes sets isRead of one such message and changes no other message
\* (none sent by userId, none of another order), and when it answers success
\* all of them are read and, if no message arrived since the query,
\* getUnreadMessageCount(orderId, userId) is 0.
C28_MarksExactlyUnreadFromOthers ==
  [][\A p \in Clients : markOrderMessagesAsReadStep(p)]_vars

\* a call for the administrator on the first order succeeded: the message of
\* the exchange office is read, the administrator's own message and the
\* message of the other order are still unread
C28_Witness ==
  /\ response = Response("markOrderMessagesAsRead", "ok", TRUE)
  /\ Len(messages) = 4
  /\ messages[1].isRead
  /\ ~messages[3].isRead
  /\ ~messages[4].isRead
  /\ getUnreadMessageCount(ChatOrder, "admin1") = 0

\* the call that ended in this step of the AuthProvider, if one did
callEnded ==
  /\ auth.pc = "mounted"
  /\ auth'.settled /= auth.settled

\* the login that ended in this step failed: its request threw, or answered
\* without success
loginFailed ==
  /\ auth'.settled.fn = "login"
  /\ LET o == auth'.settled.outcome IN
       IF "data" \in DOMAIN o THEN ~o.data.success ELSE TRUE

\* the failure message: of what was thrown, or the error of the answer, or
\* 'Login failed' when the answer has none
failureMessage ==
  LET o == auth'.settled.outcome IN
  IF "thrown" \in DOMAIN o THEN o.thrown.message
  ELSE IF o.data.error \in {Undefined, ""} THEN "Login failed"
  ELSE o.data.error

\* what the end of a call does to the state of the provider
AuthCallEndStep ==
  callEnded =>
    /\ auth'.loading = FALSE
    /\ (auth'.settled.fn = "login" /\ loginFailed) =>
         /\ auth'.error = [value |-> failureMessage]
         /\ auth'.user = auth.user
         /\ auth'.settled.promise = "rejected"
         /\ auth'.settled.reason.message = failureMessage
    /\ (auth'.settled.fn = "login" /\ ~loginFailed) =>
         /\ auth'.user = auth'.settled.outcome.data.user
         /\ auth'.error = auth.error
         /\ auth'.settled.promise = "fulfilled"
         /\ \A r \in auth.requests :
              (r.id = auth'.settled.id /\ ~r.errorSet) => auth'.error = Null

\* the login that ended in this step succeeded
loginSucceeded == callEnded /\ auth'.settled.fn = "login" /\ ~loginFailed

\* C29: every call in flight eventually ends with loading set to
\* false, a failed login sets error, keeps user and rejects, and when a
\* successful login ends user is the returned user and error is null.
C29_SuccessfulLoginEndsWithErrorNull ==
  /\ [][AuthCallEndStep /\ (loginSucceeded => auth'.error = Null)]_vars
  /\ (auth.pc = "mounted" /\ auth.requests /= {})
       ~> (auth.pc = "mounted" /\ auth.requests = {} /\ ~auth.loading)

\* some call is in flight / none is and nothing is loading
InFlight == auth.pc = "mounted" /\ auth.requests /= {}
AtRest == auth.pc = "mounted" /\ auth.requests = {} /\ ~auth.loading

\* C29, the part that holds: every checkAuthStatus, login and logout call in
\* flight eventually ends (the provider comes to rest with no call in flight and loading
\* false), and the step that ends a call sets loading to false, whatever its
\* request did; a failed login sets error to the failure message, leaves
\* user as it was and rejects with the error; a successful login sets user
\* to the returned user and does not change error, which is null then unless
\* another login or logout failed while the login was in flight.
C29_CallsEndNotLoading ==
  /\ [][AuthCallEndStep]_vars
  /\ InFlight ~> AtRest

\* a login failed while a user was signed in: the user is still signed in,
\* the error is shown and nothing is loading
C29_Witness ==
  /\ auth.pc = "mounted"
  /\ auth.settled.fn = "login"
  /\ auth.settled.promise = "rejected"
  /\ auth.user \in AuthUsers
  /\ auth.error = [value |-> "Invalid credentials"]
  /\ ~auth.loading

====
